---- MODULE Spec2Model ----
(***************************************************************************)
(* Model of the Bacchus blood-alcohol calculator (src/src/App.tsx).         *)
(*                                                                         *)
(* State: the four useState cells of AlcoholCalculator (sex, weight,        *)
(* hoursSinceStart, drinks) and the five useMemo cells (gramsPureAlcohol,   *)
(* peakBAC, currentBAC, hoursToLegal, hoursToZero).  Every event handler    *)
(* is one action: it replaces one useState cell and re-renders, and the     *)
(* render re-evaluates the useMemo chain in source order, recomputing a     *)
(* cell only when its dependency list changed.                              *)
(*                                                                         *)
(* JavaScript numbers are modelled as exact rationals [n, d] in lowest      *)
(* terms (d > 0); NaN and Infinity are not reachable from the handlers      *)
(* (Number("") is 0 and the only divisors are BETA and weight * r with      *)
(* weight > 0).                                                             *)
(***************************************************************************)
EXTENDS Integers, Sequences, FiniteSets, TLC

VARIABLES sex, weight, hoursSinceStart, drinks,
          gramsPureAlcohol, peakBAC, currentBAC, hoursToLegal, hoursToZero

vars == <<sex, weight, hoursSinceStart, drinks,
          gramsPureAlcohol, peakBAC, currentBAC, hoursToLegal, hoursToZero>>

----------------------------------------------------------------------------
(* Exact rational arithmetic standing for the number type.                  *)

Abs(i) == IF i < 0 THEN -i ELSE i

RECURSIVE GCD(_, _)
GCD(a, b) == IF b = 0 THEN a ELSE GCD(b, a % b)

Rat(num, den) ==
    LET s == IF den < 0 THEN -1 ELSE 1
        g == GCD(Abs(num), Abs(den))
    IN  [n |-> (s * num) \div g, d |-> (s * den) \div g]

FromInt(i) == [n |-> i, d |-> 1]
Zero == FromInt(0)

\* Sums and comparisons go through the least common denominator and products
\* are reduced crosswise, which keeps the intermediate integers small.
RAdd(x, y) ==
    LET g == GCD(x.d, y.d)
    IN  Rat(x.n * (y.d \div g) + y.n * (x.d \div g), (x.d \div g) * y.d)
RNeg(x) == [n |-> -x.n, d |-> x.d]
RSub(x, y) == RAdd(x, RNeg(y))
\* (x and y are in lowest terms, and so is the crosswise reduced product)
RMul(x, y) ==
    LET g1 == GCD(Abs(x.n), y.d)
        g2 == GCD(Abs(y.n), x.d)
    IN  [n |-> (x.n \div g1) * (y.n \div g2), d |-> (x.d \div g2) * (y.d \div g1)]
\* y # 0
RDiv(x, y) == RMul(x, IF y.n < 0 THEN [n |-> -y.d, d |-> -y.n] ELSE [n |-> y.d, d |-> y.n])
RLe(x, y) ==
    LET g == GCD(x.d, y.d) IN x.n * (y.d \div g) <= y.n * (x.d \div g)
RLt(x, y) == ~RLe(y, x)
MathMax(x, y) == IF RLe(x, y) THEN y ELSE x
MathFloor(x) == x.n \div x.d
\* Math.round: the nearest integer, ties towards +Infinity.
MathRound(x) == MathFloor(RAdd(x, Rat(1, 2)))
\* The % operator: the remainder takes the sign of the dividend.
JsRem(a, b) == IF a >= 0 THEN a % b ELSE -((-a) % b)

----------------------------------------------------------------------------
(* Constants of the computation.                                            *)

ETHANOL_DENSITY == Rat(789, 1000)
R_MALE == Rat(68, 100)
R_FEMALE == Rat(55, 100)
BETA == Rat(15, 100)
LEGAL_LIMIT == Rat(5, 10)

----------------------------------------------------------------------------
(* Bounds and the inputs the handlers are driven with.                      *)

\* Longest drink list explored (addDrink is disabled beyond it).
MaxDrinks == 2

Sexes == {"male", "female"}
\* Values uid() may return; it draws at random, so two calls may agree.
Ids == {"k3x9q2a", "p07zm1c"}
\* Number(e.target.value) of the weight field (kg).
WeightInputs == {FromInt(-5), Zero, Rat(3945, 100), FromInt(75)}
\* Number(e.target.value) of the elapsed-hours field.
HoursInputs == {Rat(-1, 2), Zero, FromInt(6)}
\* Number(e.target.value) of a volume field (cL) and of an abv field (%).
VolumeClInputs == {FromInt(-1)}
AbvInputs == {Rat(34, 10)}
\* e.target.value of a name field.
LabelInputs == {"Boisson"}

\* addDrink() is called with no argument or with one of the presets.
NoPreset == [f \in {} |-> 0]
PresetBiere50 == [label |-> "Bière 50 cL (5%)", volumeMl |-> FromInt(500), abv |-> FromInt(5)]
Presets == {NoPreset, PresetBiere50}

----------------------------------------------------------------------------
(* The estimator: the bodies of the five useMemo callbacks.                 *)

\* r = sex === "male" ? R_MALE : R_FEMALE
rOf(s) == IF s = "male" THEN R_MALE ELSE R_FEMALE

\* One term of the reduce: d.volumeMl * (d.abv / 100) * ETHANOL_DENSITY
DrinkGrams(d) == RMul(RMul(d.volumeMl, RDiv(d.abv, FromInt(100))), ETHANOL_DENSITY)

RECURSIVE ReduceGrams(_, _, _)
ReduceGrams(ds, i, sum) ==
    IF i > Len(ds) THEN sum ELSE ReduceGrams(ds, i + 1, RAdd(sum, DrinkGrams(ds[i])))

ComputeGramsPureAlcohol(ds) == ReduceGrams(ds, 1, Zero)

ComputePeakBAC(grams, w, r) ==
    IF w.n = 0 \/ RLe(w, Zero) THEN Zero ELSE RDiv(grams, RMul(w, r))

\* Variant: the outer Math.max(0, ...) is missing.
ComputeCurrentBACNoFloor(peak, hours) ==
    RSub(peak, RMul(BETA, MathMax(Zero, hours)))

ComputeCurrentBAC(peak, hours) ==
    MathMax(Zero, RSub(peak, RMul(BETA, MathMax(Zero, hours))))

\* Variant: the guard compares with BETA instead of LEGAL_LIMIT.
ComputeHoursToLegalWrongLimit(cur) ==
    IF RLe(cur, BETA) THEN Zero ELSE RDiv(RSub(cur, LEGAL_LIMIT), BETA)

\* Variant: the early return is missing.
ComputeHoursToLegalNoGuard(cur) == RDiv(RSub(cur, LEGAL_LIMIT), BETA)

ComputeHoursToLegal(cur) ==
    IF RLe(cur, LEGAL_LIMIT) THEN Zero ELSE RDiv(RSub(cur, LEGAL_LIMIT), BETA)

\* Variant: divides by LEGAL_LIMIT instead of BETA.
ComputeHoursToZeroWrongRate(cur) == RDiv(cur, LEGAL_LIMIT)

ComputeHoursToZero(cur) == RDiv(cur, BETA)

----------------------------------------------------------------------------
(* useMemo: a cell keeps its value until an entry of its dependency list    *)
(* differs from the one of the previous render.                             *)

UseMemo(cell, deps, val) ==
    IF cell.deps = deps THEN cell ELSE [val |-> val, deps |-> deps]

\* [drinks] is compared by identity: every setDrinks updater builds a new
\* array, so the dependency differs exactly on the renders that follow one.
GramsDepsChanged(replaced) == replaced
PeakBACDeps(grams, r, w) == <<grams, r, w>>
\* Variant: hoursSinceStart is missing from the dependency list.
CurrentBACDepsNoHours(peak, hours) == <<peak>>
CurrentBACDeps(peak, hours) == <<peak, hours>>
HoursToLegalDeps(cur) == <<cur>>
HoursToZeroDeps(cur) == <<cur>>

\* One render of AlcoholCalculator on the new useState values.
Render(replaced) ==
    LET r == rOf(sex') IN
    /\ gramsPureAlcohol' =
           IF GramsDepsChanged(replaced)
           THEN [val |-> ComputeGramsPureAlcohol(drinks')]
           ELSE gramsPureAlcohol
    /\ peakBAC' = UseMemo(peakBAC, PeakBACDeps(gramsPureAlcohol'.val, r, weight'),
                          ComputePeakBAC(gramsPureAlcohol'.val, weight', r))
    /\ currentBAC' = UseMemo(currentBAC, CurrentBACDeps(peakBAC'.val, hoursSinceStart'),
                             ComputeCurrentBAC(peakBAC'.val, hoursSinceStart'))
    /\ hoursToLegal' = UseMemo(hoursToLegal, HoursToLegalDeps(currentBAC'.val),
                               ComputeHoursToLegal(currentBAC'.val))
    /\ hoursToZero' = UseMemo(hoursToZero, HoursToZeroDeps(currentBAC'.val),
                              ComputeHoursToZero(currentBAC'.val))

----------------------------------------------------------------------------
(* The handlers.                                                            *)

SetSex(s) ==
    /\ sex' = s
    /\ UNCHANGED <<weight, hoursSinceStart, drinks>>
    /\ Render(FALSE)

SetWeight(w) ==
    /\ weight' = w
    /\ UNCHANGED <<sex, hoursSinceStart, drinks>>
    /\ Render(FALSE)

SetHoursSinceStart(h) ==
    /\ hoursSinceStart' = h
    /\ UNCHANGED <<sex, weight, drinks>>
    /\ Render(FALSE)

\* preset?.f ?? dflt
PresetField(preset, f, dflt) == IF f \in DOMAIN preset THEN preset[f] ELSE dflt

NewDrink(preset, id) ==
    [id |-> id,
     label |-> PresetField(preset, "label", "Boisson"),
     volumeMl |-> PresetField(preset, "volumeMl", FromInt(500)),
     abv |-> PresetField(preset, "abv", FromInt(5))]

AddDrink(preset, id) ==
    /\ Len(drinks) < MaxDrinks
    /\ drinks' = Append(drinks, NewDrink(preset, id))
    /\ UNCHANGED <<sex, weight, hoursSinceStart>>
    /\ Render(TRUE)

\* { ...d, ...patch }
ApplyPatch(d, patch) ==
    [f \in DOMAIN d |-> IF f \in DOMAIN patch THEN patch[f] ELSE d[f]]

MapPatch(s, id, patch) ==
    [i \in 1..Len(s) |-> IF s[i].id = id THEN ApplyPatch(s[i], patch) ELSE s[i]]

FilterOut(s, id) == SelectSeq(s, LAMBDA d : d.id # id)

\* The ids of the rendered rows: the only ids the row handlers are bound to.
RowIds == {drinks[i].id : i \in 1..Len(drinks)}

\* The patches the three field handlers of a row build.
LabelPatches == {[label |-> l] : l \in LabelInputs}
VolumePatches == {[volumeMl |-> RMul(v, FromInt(10))] : v \in VolumeClInputs}
AbvPatches == {[abv |-> a] : a \in AbvInputs}
Patches == LabelPatches \cup VolumePatches \cup AbvPatches

UpdateDrink(id, patch) ==
    /\ id \in RowIds
    /\ drinks' = MapPatch(drinks, id, patch)
    /\ UNCHANGED <<sex, weight, hoursSinceStart>>
    /\ Render(TRUE)

RemoveDrink(id) ==
    /\ id \in RowIds
    /\ drinks' = FilterOut(drinks, id)
    /\ UNCHANGED <<sex, weight, hoursSinceStart>>
    /\ Render(TRUE)

----------------------------------------------------------------------------
(* The first render.                                                        *)

InitialDrink(id) ==
    [id |-> id, label |-> "Bière (50 cL, 5%)", volumeMl |-> FromInt(500), abv |-> FromInt(5)]

Init ==
    /\ sex = "male"
    /\ weight = FromInt(75)
    /\ hoursSinceStart = Zero
    /\ \E id \in Ids : drinks = <<InitialDrink(id)>>
    /\ gramsPureAlcohol = [val |-> ComputeGramsPureAlcohol(drinks)]
    /\ peakBAC = [val |-> ComputePeakBAC(gramsPureAlcohol.val, weight, rOf(sex)),
                  deps |-> PeakBACDeps(gramsPureAlcohol.val, rOf(sex), weight)]
    /\ currentBAC = [val |-> ComputeCurrentBAC(peakBAC.val, hoursSinceStart),
                     deps |-> CurrentBACDeps(peakBAC.val, hoursSinceStart)]
    /\ hoursToLegal = [val |-> ComputeHoursToLegal(currentBAC.val),
                       deps |-> HoursToLegalDeps(currentBAC.val)]
    /\ hoursToZero = [val |-> ComputeHoursToZero(currentBAC.val),
                      deps |-> HoursToZeroDeps(currentBAC.val)]

Next ==
    \/ \E s \in Sexes : SetSex(s)
    \/ \E w \in WeightInputs : SetWeight(w)
    \/ \E h \in HoursInputs : SetHoursSinceStart(h)
    \/ \E preset \in Presets, id \in Ids : AddDrink(preset, id)
    \/ \E id \in Ids, patch \in Patches : UpdateDrink(id, patch)
    \/ \E id \in Ids : RemoveDrink(id)

Spec == Init /\ [][Next]_vars

----------------------------------------------------------------------------
(* The "Hh MMm" texts.  A string is the sequence of its characters.         *)

Digit == <<"0", "1", "2", "3", "4", "5", "6", "7", "8", "9">>

RECURSIVE NatToString(_)
NatToString(i) ==
    IF i < 10 THEN <<Digit[i + 1]>> ELSE NatToString(i \div 10) \o <<Digit[(i % 10) + 1]>>

\* Number.prototype.toString of an integer
NumberToString(i) == IF i < 0 THEN <<"-">> \o NatToString(-i) ELSE NatToString(i)

RECURSIVE PadStart(_, _, _)
PadStart(str, len, c) == IF Len(str) >= len THEN str ELSE PadStart(<<c>> \o str, len, c)

fmtHM(x) ==
    LET totalMinutes == MathRound(RMul(x, FromInt(60)))
        h == MathFloor(Rat(totalMinutes, 60))
        m == JsRem(totalMinutes, 60)
    IN  NumberToString(h) \o <<"h", " ">> \o PadStart(NumberToString(m), 2, "0") \o <<"m">>

\* The three texts the cards show.
ElapsedText == fmtHM(hoursSinceStart)
HoursToLegalText == fmtHM(MathMax(Zero, hoursToLegal.val))
HoursToZeroText == fmtHM(MathMax(Zero, hoursToZero.val))

----------------------------------------------------------------------------
(* Properties.                                                              *)

grams == gramsPureAlcohol.val
peak == peakBAC.val
cur == currentBAC.val
toLegal == hoursToLegal.val
toZero == hoursToZero.val

\* C1: hoursToLegal is 0 whenever currentBAC <= 0.5 (0.5 included); otherwise
\* it is strictly positive and is the time BETA takes to remove the excess
\* over 0.5, i.e. (currentBAC - 0.5) / 0.15.
C1_HoursToLegal ==
    IF RLe(cur, LEGAL_LIMIT)
    THEN toLegal = Zero
    ELSE /\ RLt(Zero, toLegal)
         /\ RAdd(RMul(toLegal, BETA), LEGAL_LIMIT) = cur

\* A state exactly on the threshold, reached through edits.
C1_Witness ==
    /\ Len(drinks) > 0
    /\ cur = LEGAL_LIMIT
    /\ toLegal = Zero

\* C2: the grams of pure alcohol are never negative, every drink having
\* volumeMl >= 0 and abv in [0, 100].
C2_GramsNonNegative ==
    /\ RLe(Zero, grams)
    /\ \A i \in 1..Len(drinks) :
           /\ RLe(Zero, drinks[i].volumeMl)
           /\ RLe(Zero, drinks[i].abv)
           /\ RLe(drinks[i].abv, FromInt(100))

\* C3: peak BAC is never negative; it is 0 when weight <= 0 or when no alcohol
\* was consumed, and grams / (weight * r) otherwise.
C3_PeakBAC ==
    /\ RLe(Zero, peak)
    /\ IF RLe(weight, Zero) \/ grams = Zero
       THEN peak = Zero
       ELSE RMul(peak, RMul(weight, rOf(sex))) = grams

\* C4: for the peak of the state, current BAC is non-increasing in the elapsed
\* hours, never negative, and 0 from peak / 0.15 hours on; and a step that only
\* raises the elapsed hours never raises the displayed BAC.
C4_Hours == {Rat(-1, 2), Zero, Rat(1, 2), FromInt(6)}

C4_State ==
    LET t0 == RDiv(peak, BETA)
        hs == C4_Hours \cup {hoursSinceStart, t0}
        bac == [h \in hs |-> ComputeCurrentBAC(peak, h)]
    IN  /\ RLe(Zero, cur)
        /\ \A h \in hs : RLe(Zero, bac[h])
        /\ \A h1, h2 \in hs : RLt(h1, h2) => RLe(bac[h2], bac[h1])
        /\ \A t \in hs : RLe(t0, t) => bac[t] = Zero

C4_Step ==
    (/\ UNCHANGED <<sex, weight, drinks>>
     /\ RLe(hoursSinceStart, hoursSinceStart'))
    => RLe(currentBAC'.val, currentBAC.val)

C4_CurrentBACNonIncreasing == [](C4_State) /\ [][C4_Step]_vars

\* Time has passed and has lowered a positive BAC below its peak.
C4_Witness ==
    /\ RLt(Zero, hoursSinceStart)
    /\ RLt(Zero, cur)
    /\ RLt(cur, peak)

\* C5: negative elapsed hours count as 0 (current BAC is max(0, peak), the
\* value at 0 hours), and current BAC never exceeds peak BAC.
C5_NegativeHoursAsZero ==
    /\ RLt(hoursSinceStart, Zero) =>
           /\ cur = MathMax(Zero, peak)
           /\ cur = ComputeCurrentBAC(peak, Zero)
    /\ RLe(cur, peak)

C7_EmptyListAllZero ==
    Len(drinks) = 0 =>
        /\ grams = Zero
        /\ peak = Zero
        /\ cur = Zero
        /\ toLegal = Zero
        /\ toZero = Zero

\* Every drink was removed, the weight is not positive, the hours are negative.
C7_Witness ==
    /\ drinks = <<>>
    /\ RLe(weight, Zero)
    /\ RLt(hoursSinceStart, Zero)
    /\ toZero = Zero

\* C8: after every handler the five memoised values are the composition
\* grams -> peak -> current -> (hoursToLegal, hoursToZero) on the current
\* inputs: none is left over from an earlier value of an input.
C8_NoStaleResult ==
    LET g == ComputeGramsPureAlcohol(drinks)
        p == ComputePeakBAC(g, weight, rOf(sex))
        c == ComputeCurrentBAC(p, hoursSinceStart)
    IN  /\ grams = g
        /\ peak = p
        /\ cur = c
        /\ toLegal = ComputeHoursToLegal(c)
        /\ toZero = ComputeHoursToZero(c)

\* The four inputs all differ from their initial values and the result is
\* not the trivial one.
C8_Witness ==
    /\ sex = "female"
    /\ weight = Rat(3945, 100)
    /\ hoursSinceStart = FromInt(6)
    /\ Len(drinks) = 2
    /\ RLt(LEGAL_LIMIT, cur)

\* Reading "Hh MMm" back as a number of minutes.
DigitValue(c) == CHOOSE k \in 0..9 : Digit[k + 1] = c

RECURSIVE ParseNat(_, _)
ParseNat(str, acc) ==
    IF str = <<>> THEN acc ELSE ParseNat(Tail(str), 10 * acc + DigitValue(Head(str)))

ParseInt(str) == IF Head(str) = "-" THEN -ParseNat(Tail(str), 0) ELSE ParseNat(str, 0)

ParseHM(str) ==
    LET i == CHOOSE k \in 1..Len(str) : str[k] = "h"
    IN  ParseInt(SubSeq(str, 1, i - 1)) * 60 + ParseInt(SubSeq(str, i + 2, Len(str) - 1))

IsMinuteAligned(x) == RMul(x, FromInt(60)).d = 1

\* C9: for every minute-aligned value handed to fmtHM (the unclamped
\* hoursSinceStart included), with minutes = round(hours * 60), the text is
\* floor(minutes / 60), "h ", minutes mod 60 in 0..59 as two digits, "m", and
\* reading it back as H * 60 + M gives minutes again.
C9_FmtHMRoundTrip ==
    \A x \in {hoursSinceStart, MathMax(Zero, toLegal), MathMax(Zero, toZero)} :
        IsMinuteAligned(x) =>
            LET minutes == MathRound(RMul(x, FromInt(60)))
                H == minutes \div 60
                M == minutes % 60
                str == fmtHM(x)
            IN  /\ str = NumberToString(H) \o <<"h", " ">>
                             \o <<Digit[(M \div 10) + 1], Digit[(M % 10) + 1]>> \o <<"m">>
                /\ ParseHM(str) = minutes

\* C10: identifiers are unique per entry, so removeDrink(id) shortens the list
\* by exactly 1, updateDrink(id, patch) applies to exactly one entry, the other
\* entries keep their values and order, addDrink appends at the end, and none
\* of the three changes sex, weight or elapsed hours.
WithoutIndex(s, k) == SubSeq(s, 1, k - 1) \o SubSeq(s, k + 1, Len(s))

C10_Step ==
    /\ \A id \in Ids :
           RemoveDrink(id) =>
               /\ Len(drinks') = Len(drinks) - 1
               /\ \E k \in 1..Len(drinks) : drinks[k].id = id /\ drinks' = WithoutIndex(drinks, k)
               /\ UNCHANGED <<sex, weight, hoursSinceStart>>
    /\ \A id \in Ids, patch \in Patches :
           UpdateDrink(id, patch) =>
               /\ Cardinality({i \in 1..Len(drinks) : drinks[i].id = id}) = 1
               /\ Len(drinks') = Len(drinks)
               /\ \A i \in 1..Len(drinks) : drinks[i].id # id => drinks'[i] = drinks[i]
               /\ UNCHANGED <<sex, weight, hoursSinceStart>>
    /\ \A preset \in Presets, id \in Ids :
           AddDrink(preset, id) =>
               /\ Len(drinks') = Len(drinks) + 1
               /\ SubSeq(drinks', 1, Len(drinks)) = drinks
               /\ drinks'[Len(drinks')].id = id
               /\ UNCHANGED <<sex, weight, hoursSinceStart>>

C10_ListEditsTouchOneEntry == [][C10_Step]_vars

====
